---- MODULE Spec2Model ----
(***************************************************************************)
(* Model of cloud/ws_client.py: DreoWebSocketClient, one Session.          *)
(*                                                                         *)
(* The caller thread runs connect and disconnect statement by statement.   *)
(* Every connect creates one WebSocketApp (a connection) and one thread    *)
(* whose target is that connection's run_forever; the thread delivers the  *)
(* connection's events by calling the Session's four forwarding handlers.  *)
(* A forwarding handler is modelled in its steps: the flag write on entry, *)
(* the test of the stored callback, the call (which reads the stored       *)
(* callback again), the callback's run and its outcome.                    *)
(***************************************************************************)
EXTENDS Naturals, Sequences, FiniteSets

\* Number of connect calls explored; each creates one connection and one thread.
MaxConnects == 2

None == 0

Ids == 1..MaxConnects

\* Exception kinds a callee (a user callback, the connection's close) can raise.
ExcKinds == {"RuntimeError", "OSError", "ValueError"}

\* The kinds named by the except clauses of the module.
CaughtKinds == {"RuntimeError", "OSError"}

\* Arguments the connection passes with its events.
Payloads == {"m1"}
Errors == {"e1"}
Codes == {1000}
Reasons == {"bye"}

VARIABLES
    ws,               \* self._ws: None or the connection created by the latest connect
    thread,           \* self._thread: None or the thread created by the latest connect
    connected,        \* self._connected
    user_on_message,  \* self._user_on_message: None or a callback
    user_on_error,    \* self._user_on_error
    user_on_close,    \* self._user_on_close
    user_on_open,     \* self._user_on_open
    cpc,              \* position of the caller thread inside connect / disconnect
    nconn,            \* number of connections created so far
    cstate,           \* per connection: "none", "new", "open", "closed"
    closeReq,         \* per connection: close() has been called on it
    tstate,           \* per thread: "none", "created", "running", "dead"
    target,           \* per thread: the connection whose run_forever it runs
    hpc,              \* per thread: position inside a forwarding handler
    hev,              \* per thread: the event being forwarded
    hargs,            \* per thread: the event's arguments
    hinv,             \* per thread: callback invocations made by the running handler
    dres,             \* how the latest disconnect call since the last connect ended
    lastDisc,         \* the connection held when a disconnect last returned, or None
    access_token,     \* self.access_token
    upc,              \* position inside _build_ws_url
    clean_token,      \* _build_ws_url: clean_token
    ts,               \* _build_ws_url: ts
    endpoint,         \* _build_ws_url: endpoint
    url               \* _build_ws_url: the string returned

\* The variables of _build_ws_url.
urlVars == <<access_token, upc, clean_token, ts, endpoint, url>>

vars == <<ws, thread, connected, user_on_message, user_on_error, user_on_close,
          user_on_open, cpc, nconn, cstate, closeReq, tstate, target, hpc, hev,
          hargs, hinv, dres, lastDisc, urlVars>>

session == <<ws, thread, connected, user_on_message, user_on_error, user_on_close,
             user_on_open>>

workers == <<cstate, closeReq, tstate, target, hpc, hev, hargs, hinv>>

callerHist == dres

\* The callback stored for an event, as the handler of that event reads it.
UserCb(ev) ==
    CASE ev = "open" -> user_on_open
      [] ev = "message" -> user_on_message
      [] ev = "error" -> user_on_error
      [] ev = "close" -> user_on_close

\* except (RuntimeError, OSError)
Caught(kind) == kind \in CaughtKinds

\* threading.Thread.is_alive
IsAlive(t) == tstate[t] = "running"

\* Access tokens a Session is constructed with.
Tokens == {"abc.def.ghi", "tokenA", "tokenB", "tokenC"}

\* Line 31 and the locals of _build_ws_url before it has run.
UrlIdle ==
    /\ upc = "idle"
    /\ clean_token = None
    /\ ts = None
    /\ endpoint = None
    /\ url = <<>>

\* Lines 32-41: the Session's handles, flag and callbacks after construction.
SessionInit ==
    /\ lastDisc = None
    /\ ws = None
    /\ thread = None
    /\ connected = FALSE
    /\ user_on_message = None
    /\ user_on_error = None
    /\ user_on_close = None
    /\ user_on_open = None
    /\ cpc = "idle"
    /\ nconn = 0
    /\ cstate = [c \in Ids |-> "none"]
    /\ closeReq = [c \in Ids |-> FALSE]
    /\ tstate = [t \in Ids |-> "none"]
    /\ target = [t \in Ids |-> None]
    /\ hpc = [t \in Ids |-> "idle"]
    /\ hev = [t \in Ids |-> "none"]
    /\ hargs = [t \in Ids |-> <<>>]
    /\ hinv = [t \in Ids |-> <<>>]
    /\ dres = "none"

Init ==
    /\ access_token = "abc.def.ghi"
    /\ UrlIdle
    /\ SessionInit

----------------------------------------------------------------------------
\* connect

\* Mutant: connect marks the Session connected as soon as it is called.
ConnectFlagSet == TRUE

\* Mutant: connect resets the flag when it is called.
ConnectFlagReset == FALSE

\* The flag as connect leaves it: connect has no statement that writes it.
ConnectFlag == connected

\* Mutant: an argument left as None keeps the callback stored before.
StoredCbKeep(old, new) == IF new = None THEN old ELSE new

\* Mutant: a callback already stored is kept; only an empty slot is filled.
StoredCbStale(old, new) == IF old = None THEN new ELSE old

\* Lines 57-60: self._user_on_X = on_X; the slot takes the argument,
\* None included, whatever it held.
StoredCb(old, new) == new

\* Lines 57-60: the call stores the four callbacks it was given.
\* A callback registered by the k-th connect call is named k.
ConnectStore(m, e, c, o) ==
    /\ cpc = "idle"
    /\ nconn < MaxConnects
    /\ user_on_message' = StoredCb(user_on_message, m)
    /\ user_on_error' = StoredCb(user_on_error, e)
    /\ user_on_close' = StoredCb(user_on_close, c)
    /\ user_on_open' = StoredCb(user_on_open, o)
    /\ connected' = ConnectFlag
    /\ cpc' = "c_ws"
    /\ dres' = "none"
    /\ UNCHANGED <<ws, thread, nconn, workers>>
    /\ UNCHANGED <<lastDisc, urlVars>>

\* Lines 62-74: self._ws = WebSocketApp(url, ..., the four forwarding handlers).
ConnectCreateWs ==
    /\ cpc = "c_ws"
    /\ nconn' = nconn + 1
    /\ ws' = nconn + 1
    /\ cstate' = [cstate EXCEPT ![nconn + 1] = "new"]
    /\ cpc' = "c_thread"
    /\ UNCHANGED <<thread, connected, user_on_message, user_on_error, user_on_close,
                   user_on_open, closeReq, tstate, target, hpc, hev, hargs, hinv,
                   callerHist>>
    /\ UNCHANGED <<lastDisc, urlVars>>

\* Mutant: the thread is bound to the connection the Session held before
\* this connect call, when there was one.
ThreadTargetStale == IF ws > 1 THEN ws - 1 ELSE ws

\* The connection a new thread is bound to: target=self._ws.run_forever is
\* evaluated when the Thread object is built, so it is the connection just created.
ThreadTarget == ws

\* Mutant: connect builds a Thread only when the Session has none yet.
NewThreadOnce == IF thread = None THEN nconn ELSE thread

\* The Thread object connect builds: a fresh one on every call.
NewThread == nconn

\* Lines 76-80: self._thread = threading.Thread(target=self._ws.run_forever, ...).
ConnectCreateThread ==
    /\ cpc = "c_thread"
    /\ thread' = NewThread
    /\ target' = [target EXCEPT ![NewThread] = ThreadTarget]
    /\ tstate' = [tstate EXCEPT ![NewThread] = "created"]
    /\ cpc' = "c_start"
    /\ UNCHANGED <<ws, connected, user_on_message, user_on_error, user_on_close,
                   user_on_open, nconn, cstate, closeReq, hpc, hev, hargs, hinv,
                   callerHist>>
    /\ UNCHANGED <<lastDisc, urlVars>>

\* Line 81: self._thread.start(); connect returns.
ConnectStart ==
    /\ cpc = "c_start"
    /\ tstate' = [tstate EXCEPT ![thread] = "running"]
    /\ cpc' = "idle"
    /\ UNCHANGED <<session, nconn, cstate, closeReq, target, hpc, hev, hargs, hinv,
                   callerHist>>
    /\ UNCHANGED <<lastDisc, urlVars>>

----------------------------------------------------------------------------
\* disconnect

\* While a disconnect call runs, what is remembered of the calls before it:
\* whether the previous one returned.
DuringCall == IF dres = "returned" THEN "returned" ELSE "none"

\* Lines 85-89: close the connection if there is one. close() raises nothing
\* ("ok") or an exception of kind r; the except clause decides what is swallowed.
DisconnectClose(r) ==
    /\ cpc = "idle"
    /\ IF ws = None
       THEN /\ r = "ok"
            /\ UNCHANGED closeReq
            /\ cpc' = "d_join"
            /\ dres' = DuringCall
       ELSE /\ closeReq' = [closeReq EXCEPT ![ws] = TRUE]
            /\ IF r = "ok" \/ Caught(r)
               THEN cpc' = "d_join" /\ dres' = DuringCall
               ELSE cpc' = "idle" /\ dres' = "raised"
    /\ UNCHANGED <<session, nconn, cstate, tstate, target, hpc, hev, hargs, hinv>>
    /\ UNCHANGED <<lastDisc, urlVars>>

\* Line 90: if self._thread and self._thread.is_alive(): enter join(timeout).
DisconnectJoin ==
    /\ cpc = "d_join"
    /\ cpc' = (IF thread # None /\ IsAlive(thread) THEN "d_wait" ELSE "d_set")
    /\ UNCHANGED <<session, nconn, workers, callerHist>>
    /\ UNCHANGED <<lastDisc, urlVars>>

\* Line 91: join(timeout) returns when the thread has finished or when the
\* timeout has elapsed; the thread is left as it is.
DisconnectJoinReturn ==
    /\ cpc = "d_wait"
    /\ cpc' = "d_set"
    /\ UNCHANGED <<session, nconn, workers, callerHist>>
    /\ UNCHANGED <<lastDisc, urlVars>>

\* Mutant: disconnect leaves the flag as the handlers left it.
DisconnectFlagKept == connected

\* The value disconnect's last statement stores in the flag.
DisconnectFlag == FALSE

\* Mutant: disconnect drops the connection handle when it returns.
DisconnectWsCleared == None

\* self._ws as disconnect leaves it: disconnect has no statement that writes it.
DisconnectWs == ws

\* Line 92: self._connected = False; disconnect returns.
DisconnectSet ==
    /\ cpc = "d_set"
    /\ connected' = DisconnectFlag
    /\ ws' = DisconnectWs
    /\ cpc' = "idle"
    /\ dres' = "returned"
    /\ UNCHANGED <<thread, user_on_message, user_on_error, user_on_close,
                   user_on_open, nconn, workers>>
    /\ lastDisc' = ws
    /\ UNCHANGED urlVars

----------------------------------------------------------------------------
\* The forwarding handlers, called by a connection's thread from run_forever.

\* A thread's run_forever calls one handler at a time: it can deliver the next
\* event of its connection when it is running and no handler of it is active.
CanDeliver(t) ==
    /\ tstate[t] = "running"
    /\ hpc[t] = "idle"

\* Entering a handler with event ev and arguments args.
Enter(t, ev, args) ==
    /\ hpc' = [hpc EXCEPT ![t] = "test"]
    /\ hev' = [hev EXCEPT ![t] = ev]
    /\ hargs' = [hargs EXCEPT ![t] = args]
    /\ UNCHANGED hinv

\* Leaving a handler: by returning (exc = "none"), or with an exception of
\* kind exc that no except clause of the handler names; the exception then is
\* in run_forever's event loop, which called the handler.
Leave(t, exc) ==
    IF exc = "none"
    THEN /\ hpc' = [hpc EXCEPT ![t] = "idle"]
         /\ hev' = [hev EXCEPT ![t] = "none"]
         /\ hargs' = [hargs EXCEPT ![t] = <<>>]
         /\ hinv' = [hinv EXCEPT ![t] = <<>>]
    ELSE /\ hpc' = [hpc EXCEPT ![t] = "raised"]
         /\ hev' = [hev EXCEPT ![t] = exc]
         /\ hargs' = [hargs EXCEPT ![t] = <<>>]
         /\ hinv' = [hinv EXCEPT ![t] = <<>>]

\* Mutant: _on_open leaves the flag as it finds it.
OpenFlagUnset == connected

\* Line 113: the flag as _on_open sets it.
OpenFlag == TRUE

\* Line 137: the flag as _on_close sets it.
CloseFlag == FALSE

\* Lines 112-114: _on_open is called; self._connected = True.
OnOpen(t) ==
    /\ CanDeliver(t)
    /\ cstate[target[t]] = "new"
    /\ cstate' = [cstate EXCEPT ![target[t]] = "open"]
    /\ connected' = OpenFlag
    /\ Enter(t, "open", <<>>)
    /\ UNCHANGED <<ws, thread, user_on_message, user_on_error, user_on_close,
                   user_on_open, cpc, nconn, closeReq, tstate, target, callerHist>>
    /\ UNCHANGED <<lastDisc, urlVars>>

\* Line 121: _on_message is called with a payload.
OnMessage(t, m) ==
    /\ CanDeliver(t)
    /\ cstate[target[t]] = "open"
    /\ Enter(t, "message", <<m>>)
    /\ UNCHANGED <<session, cpc, nconn, cstate, closeReq, tstate, target, callerHist>>
    /\ UNCHANGED <<lastDisc, urlVars>>

\* Mutant: _on_error marks the Session as not connected.
ErrorFlagCleared == FALSE

\* Lines 128-134: the flag as _on_error leaves it: the handler has no
\* statement that writes it.
ErrorFlag == connected

\* Lines 128-129: _on_error is called with an error.
OnError(t, e) ==
    /\ CanDeliver(t)
    /\ cstate[target[t]] \in {"new", "open"}
    /\ connected' = ErrorFlag
    /\ Enter(t, "error", <<e>>)
    /\ UNCHANGED <<ws, thread, user_on_message, user_on_error, user_on_close,
                   user_on_open, cpc, nconn, cstate, closeReq, tstate, target,
                   callerHist>>
    /\ UNCHANGED <<lastDisc, urlVars>>

\* Lines 136-138: _on_close is called with (status_code, reason);
\* self._connected = False.
OnClose(t, c, r) ==
    /\ CanDeliver(t)
    /\ cstate[target[t]] \in {"new", "open"}
    /\ cstate' = [cstate EXCEPT ![target[t]] = "closed"]
    /\ connected' = CloseFlag
    /\ Enter(t, "close", <<c, r>>)
    /\ UNCHANGED <<ws, thread, user_on_message, user_on_error, user_on_close,
                   user_on_open, cpc, nconn, closeReq, tstate, target, callerHist>>
    /\ UNCHANGED <<lastDisc, urlVars>>

\* Lines 115, 122, 130, 139: if self._user_on_X: ... ; with no callback stored
\* the handler returns.
HandlerTest(t) ==
    /\ hpc[t] = "test"
    /\ IF UserCb(hev[t]) # None
       THEN /\ hpc' = [hpc EXCEPT ![t] = "call"]
            /\ UNCHANGED <<hev, hargs, hinv>>
       ELSE Leave(t, "none")
    /\ UNCHANGED <<session, cpc, nconn, cstate, closeReq, tstate, target, callerHist>>
    /\ UNCHANGED <<lastDisc, urlVars>>

\* Mutant: the handler calls the user callback without arguments.
CallArgsNone(t) == <<>>

\* The arguments a handler passes to the user callback.
CallArgs(t) == hargs[t]

\* Lines 117, 124, 132, 141: self._user_on_X(...) reads the stored callback
\* again and calls it. Calling None raises TypeError, which no except clause
\* of the handler names.
HandlerCall(t) ==
    /\ hpc[t] = "call"
    /\ IF UserCb(hev[t]) # None
       THEN /\ hinv' = [hinv EXCEPT ![t] =
                           Append(@, [cb |-> UserCb(hev[t]), args |-> CallArgs(t)])]
            /\ hpc' = [hpc EXCEPT ![t] = "incb"]
            /\ UNCHANGED <<hev, hargs>>
       ELSE Leave(t, "TypeError")
    /\ UNCHANGED <<session, cpc, nconn, cstate, closeReq, tstate, target, callerHist>>
    /\ UNCHANGED <<lastDisc, urlVars>>

\* Lines 116-119, 123-126, 131-134, 140-143: the callback returns ("ok") or
\* raises kind r; a kind the except clause names is logged, any other kind
\* leaves the handler and reaches run_forever's event loop.
CallbackDone(t, r) ==
    /\ hpc[t] = "incb"
    /\ Leave(t, IF r = "ok" \/ Caught(r) THEN "none" ELSE r)
    /\ UNCHANGED <<session, cpc, nconn, cstate, closeReq, tstate, target, callerHist>>
    /\ UNCHANGED <<lastDisc, urlVars>>

\* Lines 66-74: the WebSocketApp's event loop, which called the handler,
\* deals with an exception the handler let through and goes on.
LoopResume(t) ==
    /\ hpc[t] = "raised"
    /\ hpc' = [hpc EXCEPT ![t] = "idle"]
    /\ hev' = [hev EXCEPT ![t] = "none"]
    /\ UNCHANGED <<session, cpc, nconn, cstate, closeReq, tstate, target, hargs, hinv,
                   callerHist>>
    /\ UNCHANGED <<lastDisc, urlVars>>

\* Lines 76-81: the thread ends when run_forever returns, after its connection
\* has delivered its close event.
WorkerExit(t) ==
    /\ CanDeliver(t)
    /\ cstate[target[t]] = "closed"
    /\ tstate' = [tstate EXCEPT ![t] = "dead"]
    /\ UNCHANGED <<session, cpc, nconn, cstate, closeReq, target, hpc, hev, hargs,
                   hinv, callerHist>>
    /\ UNCHANGED <<lastDisc, urlVars>>

----------------------------------------------------------------------------

\* The callbacks a connect call can be given, as <<on_message, on_error,
\* on_close, on_open>>: none, all four, or on_message and on_error only.
CbChoices ==
    LET k == nconn + 1
    IN  {<<None, None, None, None>>, <<k, k, k, k>>, <<k, k, None, None>>}

Next ==
    \/ \E cbs \in CbChoices : ConnectStore(cbs[1], cbs[2], cbs[3], cbs[4])
    \/ ConnectCreateWs
    \/ ConnectCreateThread
    \/ ConnectStart
    \/ \E r \in {"ok"} \cup ExcKinds : DisconnectClose(r)
    \/ DisconnectJoin
    \/ DisconnectJoinReturn
    \/ DisconnectSet
    \/ \E t \in Ids : OnOpen(t)
    \/ \E t \in Ids, m \in Payloads : OnMessage(t, m)
    \/ \E t \in Ids, e \in Errors : OnError(t, e)
    \/ \E t \in Ids, c \in Codes, r \in Reasons : OnClose(t, c, r)
    \/ \E t \in Ids : HandlerTest(t)
    \/ \E t \in Ids : HandlerCall(t)
    \/ \E t \in Ids, r \in {"ok"} \cup ExcKinds : CallbackDone(t, r)
    \/ \E t \in Ids : LoopResume(t)
    \/ \E t \in Ids : WorkerExit(t)

Spec == Init /\ [][Next]_vars

----------------------------------------------------------------------------
\* _build_ws_url, for every token and every result of the helpers.

\* const.EU_BASE_URL and the endpoint identifiers parse_token_and_get_endpoint
\* can return: the EU one, the US one, and one that is neither.
EU_BASE_URL == "EU_BASE_URL"
EndpointIds == {EU_BASE_URL, "BASE_URL", "OTHER_BASE_URL"}

\* Results of Helpers.timestamp().
Timestamps == {"t1", "t2", "t3", "t4", "t5"}

\* Helpers.clean_token(token): a string made from the token.
CleanToken(token) == <<"clean", token>>

\* WS_BASE_URL.format(region_code): the base URL of a region, as its pieces.
WsBaseUrl(region_code) == <<"WS_BASE_URL", region_code>>

\* ENDPOINTS["WS_LOGIN"].format(clean_token, ts): the login path, as its pieces.
WsLoginPath(token, stamp) == <<"WS_LOGIN", token, stamp>>

\* Mutant: the endpoint is compared with the US identifier, so that an
\* identifier that is neither the EU nor the US one selects "eu".
RegionCodeUsOnly(ep) == IF ep = "BASE_URL" THEN "us" ELSE "eu"

\* Line 105: region_code = "eu" if endpoint == EU_BASE_URL else "us".
RegionCode(ep) == IF ep = EU_BASE_URL THEN "eu" ELSE "us"

\* Lines 100-101: clean_token = Helpers.clean_token(...); ts = Helpers.timestamp().
BuildClean(stamp) ==
    /\ upc = "u_clean"
    /\ clean_token' = CleanToken(access_token)
    /\ ts' = stamp
    /\ upc' = "u_endpoint"
    /\ UNCHANGED <<access_token, endpoint, url>>

\* Line 104: endpoint = Helpers.parse_token_and_get_endpoint(self.access_token).
BuildEndpoint(ep) ==
    /\ upc = "u_endpoint"
    /\ endpoint' = ep
    /\ upc' = "u_format"
    /\ UNCHANGED <<access_token, clean_token, ts, url>>

\* Lines 105-109: region_code, base, path; return base + path.
BuildFormat ==
    /\ upc = "u_format"
    /\ url' = WsBaseUrl(RegionCode(endpoint)) \o WsLoginPath(clean_token, ts)
    /\ upc' = "u_done"
    /\ UNCHANGED <<access_token, clean_token, ts, endpoint>>

\* A Session constructed with any token, on which _build_ws_url is called.
UrlInit ==
    /\ access_token \in Tokens
    /\ upc = "u_clean"
    /\ clean_token = None
    /\ ts = None
    /\ endpoint = None
    /\ url = <<>>
    /\ SessionInit

UrlNext ==
    \/ \E stamp \in Timestamps : BuildClean(stamp) /\ UNCHANGED <<session, cpc, nconn, workers, dres, lastDisc>>
    \/ \E ep \in EndpointIds : BuildEndpoint(ep) /\ UNCHANGED <<session, cpc, nconn, workers, dres, lastDisc>>
    \/ BuildFormat /\ UNCHANGED <<session, cpc, nconn, workers, dres, lastDisc>>

UrlSpec == UrlInit /\ [][UrlNext]_vars

----------------------------------------------------------------------------
\* Steps and states the properties below speak about.

\* A thread is inside a forwarding handler (or the user callback it called).
InHandler(t) == hpc[t] \in {"test", "call", "incb"}

\* A step in which thread t enters the handler of event ev.
Enters(t, ev) == hpc[t] = "idle" /\ hpc'[t] = "test" /\ hev'[t] = ev

\* A step in which thread t leaves a handler, by return or by exception.
HandlerEnds(t) == InHandler(t) /\ ~InHandler(t)'

\* A step of a disconnect call.
DisconnectStep ==
    \/ \E r \in {"ok"} \cup ExcKinds : DisconnectClose(r)
    \/ DisconnectJoin
    \/ DisconnectJoinReturn
    \/ DisconnectSet

\* The step in which a disconnect call returns.
DisconnectReturns == cpc = "d_set" /\ cpc' = "idle"

\* The threads that are running.
Running == {t \in Ids : IsAlive(t)}

----------------------------------------------------------------------------
\* C1: connected is false in the state right after construction and in the
\* state right after any disconnect call returns, whether or not the worker
\* stopped within the timeout, for every interleaving with the worker's events.
C1_FalseAfterInitAndDisconnect ==
    /\ ~connected
    /\ [][DisconnectReturns => ~connected']_vars

\* A disconnect has returned while its worker is still running on an open
\* connection (the join timed out), and the flag is false.
C1_Witness ==
    /\ cpc = "idle"
    /\ dres = "returned"
    /\ ws # None
    /\ thread # None
    /\ IsAlive(thread)
    /\ cstate[ws] = "open"
    /\ hpc[thread] = "idle"
    /\ ~connected

\* C2 (as claimed): in every reachable state, if connected is true then the
\* Session holds a connection handle and the worker driving that connection
\* is running.
C2_ConnectedImpliesRunningWorker ==
    connected => (ws # None /\ \E t \in Ids : target[t] = ws /\ IsAlive(t))

\* C2 (amended): in every reachable state, if connected is true then the
\* Session holds a connection handle and a worker handle, and some connection
\* created by the Session has delivered its open event; the worker the Session
\* holds need not be running.
C2_ConnectedImpliesHandles ==
    connected =>
        /\ ws # None
        /\ thread # None
        /\ \E t \in Ids : tstate[t] \in {"running", "dead"}
                          /\ cstate[target[t]] \in {"open", "closed"}

\* The flag is true while the worker of the Session's connection has finished.
C2_Witness ==
    /\ connected
    /\ ws # None
    /\ thread # None
    /\ tstate[thread] = "dead"
    /\ target[thread] = ws

\* C3 (as claimed): the flag changes value only in the open and close
\* handlers; no step of connect or disconnect writes it.
C3_FlagOnlyInOpenClose ==
    [][connected' # connected =>
          \E t \in Ids : Enters(t, "open") \/ Enters(t, "close")]_vars

\* C3 (amended): the flag changes value only in the open handler, in the
\* close handler and in the last statement of disconnect; no step of connect
\* writes it.
C3_FlagOnlyInOpenCloseDisconnect ==
    [][connected' # connected =>
          \/ \E t \in Ids : Enters(t, "open") \/ Enters(t, "close")
          \/ DisconnectReturns]_vars

\* The flag is false after a disconnect although a connection is open and no
\* connection has delivered a close event: disconnect has written the flag.
C3_Witness ==
    /\ ~connected
    /\ dres = "returned"
    /\ \E c \in Ids : cstate[c] = "open"
    /\ \A c \in Ids : cstate[c] # "closed"

\* C4: no failure raised by a user callback leaves a forwarding handler and
\* reaches the connection's event loop.
C4_CallbackFailuresContained ==
    \A t \in Ids : ~(hpc[t] = "raised" /\ hev[t] \in ExcKinds)

\* C5: every open event sets connected to true and every close event sets it
\* to false; the handler calls the callback stored for the event exactly once,
\* with no arguments for open and with exactly (code, reason) for close, and
\* ends without a call only when no callback is stored.
C5_OpenCloseForwarded ==
    [][\A t \in Ids :
          /\ Enters(t, "open") => (connected' /\ hargs'[t] = <<>>)
          /\ Enters(t, "close") => (~connected' /\ Len(hargs'[t]) = 2)
          /\ (hev[t] \in {"open", "close"} /\ hpc[t] = "call" /\ hpc'[t] = "incb")
                => hinv'[t] = <<[cb |-> UserCb(hev[t]), args |-> hargs[t]]>>
          /\ (hev[t] \in {"open", "close"} /\ HandlerEnds(t))
                => IF hinv[t] = <<>>
                   THEN UserCb(hev[t]) = None
                   ELSE /\ Len(hinv[t]) = 1
                        /\ hinv[t][1].cb # None
                        /\ hinv[t][1].args = hargs[t]]_vars

\* The close callback is running, called once with (1000, "bye"), and the
\* flag is false.
C5_Witness ==
    \E t \in Ids :
        /\ hpc[t] = "incb"
        /\ hev[t] = "close"
        /\ hinv[t] = <<[cb |-> user_on_close, args |-> <<1000, "bye">>]>>
        /\ user_on_close # None
        /\ ~connected

\* C6: a disconnect called before any connect, or again after a disconnect
\* has returned, raises nothing, changes nothing of the connections and
\* workers, leaves the rest of the Session as it is and leaves connected false.
C6_DisconnectIdempotent ==
    [][(DisconnectStep /\ (ws = None \/ dres = "returned")) =>
          /\ dres' # "raised"
          /\ workers' = workers
          /\ <<ws, thread, user_on_message, user_on_error, user_on_close,
               user_on_open>>' =
             <<ws, thread, user_on_message, user_on_error, user_on_close,
               user_on_open>>
          /\ (DisconnectReturns => ~connected')]_vars

\* C7: whatever kind of exception close() raises, disconnect swallows it: the
\* call does not end with it, and goes on to wait for the worker and then to
\* clear the flag.
C7_CloseFailureSwallowed ==
    [][\A r \in ExcKinds :
          (ws # None /\ DisconnectClose(r)) => (cpc' = "d_join" /\ dres' # "raised")]_vars

\* C8: every disconnect call ends by returning, not by an error, after the
\* worker has finished or the timeout has elapsed, and no step of it
\* terminates a worker.
C8_DisconnectAlwaysReturns ==
    [][DisconnectStep =>
          /\ tstate' = tstate
          /\ (cpc' = "idle" => dres' = "returned")]_vars

\* C9 (as claimed): at most one worker started by the Session is running.
C9_AtMostOneWorker == Cardinality(Running) <= 1

\* C9 (amended): each connect call starts exactly one worker, on a fresh
\* thread, so at most as many workers run as connect was called, and once
\* connect has returned the Session's worker handle names the latest one;
\* workers of earlier connect calls can still be running.
C9_OneWorkerPerConnect ==
    /\ Cardinality({t \in Ids : tstate[t] # "none"}) <= nconn
    /\ Cardinality(Running) <= nconn
    /\ (cpc \in {"idle", "d_join", "d_wait", "d_set"} /\ nconn > 0) =>
           /\ thread = nconn
           /\ ws = nconn
           /\ tstate[thread] \in {"running", "dead"}
    /\ \A t \in Running : t <= thread

\* Connect has returned with a new worker while the worker of an earlier
\* connection, on which disconnect has called close, is still running.
C9_Witness ==
    /\ cpc = "idle"
    /\ thread = 2
    /\ IsAlive(1)
    /\ IsAlive(2)
    /\ closeReq[1]

\* C10 (as claimed): in no reachable state are two forwarding handlers of the
\* Session executing at the same time.
C10_NoTwoHandlers == Cardinality({t \in Ids : InHandler(t)}) <= 1

\* C10 (amended): the handlers of one connection run one at a time, in the
\* order its thread delivers the events; two handlers of the Session execute
\* at the same time only for connections of different connect calls.
C10_OneHandlerPerConnection ==
    \A t1 \in Ids, t2 \in Ids :
        (t1 # t2 /\ InHandler(t1) /\ InHandler(t2)) => target[t1] # target[t2]

\* Two user callbacks are running at the same time, called by the handlers of
\* two connections of the Session.
C10_Witness ==
    /\ hpc[1] = "incb"
    /\ hpc[2] = "incb"
    /\ target[1] # target[2]

\* C11 (as claimed): after a disconnect has returned, and until the next
\* connect, the Session holds no connection handle and no worker handle.
C11_HandlesClearedByDisconnect ==
    dres = "returned" => (ws = None /\ thread = None)

\* C11 (amended): the connection handle and the worker handle are absent from
\* construction until the first connect sets them; no step of disconnect
\* changes them, so after a disconnect has returned the Session still holds
\* the handles of the latest connect, until the next connect replaces them.
C11_HandlesKeptByDisconnect ==
    /\ (ws = None /\ thread = None)
    /\ [][/\ DisconnectStep => (ws' = ws /\ thread' = thread)
          /\ ws' # ws => (cpc = "c_ws" /\ ws' # None)
          /\ thread' # thread => (cpc = "c_thread" /\ thread' # None)]_vars

\* A disconnect has returned, the worker has finished, and the Session still
\* holds the handles of the finished connection.
C11_Witness ==
    /\ cpc = "idle"
    /\ dres = "returned"
    /\ ws # None
    /\ thread # None
    /\ target[thread] = ws
    /\ tstate[thread] = "dead"

\* C12: for every access token, the URL _build_ws_url returns is the base URL
\* formatted with "eu" followed by the login path when the region helper
\* returns the EU endpoint identifier, and the base URL formatted with "us"
\* followed by the login path for every other identifier.
C12_UrlRegion ==
    upc = "u_done" =>
        url = (IF endpoint = EU_BASE_URL THEN WsBaseUrl("eu") ELSE WsBaseUrl("us"))
              \o WsLoginPath(CleanToken(access_token), ts)

\* The URL built for token "abc.def.ghi" when the helper returns an
\* identifier that is neither the EU nor the US one: the "us" base URL.
C12_Witness ==
    /\ upc = "u_done"
    /\ access_token = "abc.def.ghi"
    /\ endpoint = "OTHER_BASE_URL"
    /\ url[2] = "us"

----------------------------------------------------------------------------
\* C13

\* The latest connect call: the one in progress when its callbacks are stored
\* and its connection is not yet created, else the last one made.
LatestCall == IF cpc = "c_ws" THEN nconn + 1 ELSE nconn

\* C13: each connect call overwrites all four callback slots, so a slot holds
\* nothing or a callback of the latest connect call, never one of an earlier
\* call (an omitted callback clears its slot); and a forwarding handler that
\* invokes a callback after the call invokes a callback of the latest call,
\* whichever connection's thread runs the handler.
C13_CallbacksOverwritten ==
    /\ [](\A ev \in {"message", "error", "close", "open"} :
            UserCb(ev) \in {None, LatestCall})
    /\ [][\A t \in Ids :
            (hpc[t] = "call" /\ hpc'[t] = "incb")
                => hinv'[t][Len(hinv'[t])].cb = LatestCall]_vars

\* The second connect call gave on_message and on_error only while the first
\* connection's thread goes on: the open and close slots are empty, and the
\* first connection's thread is running the message callback of the second call.
C13_Witness ==
    /\ nconn = 2
    /\ user_on_open = None /\ user_on_close = None
    /\ tstate[1] = "running" /\ target[1] = 1
    /\ hpc[1] = "incb" /\ hev[1] = "message"
    /\ hinv[1] = <<[cb |-> 2, args |-> hargs[1]]>>

----------------------------------------------------------------------------
\* C14

\* C14 as stated: whenever a registered onOpen callback is executing connected
\* is true, and whenever a registered onClose callback is executing connected
\* is false, for every interleaving with the caller thread.
C14_FlagDuringCallback ==
    \A t \in Ids :
        hpc[t] = "incb" =>
            /\ (hev[t] = "open" => connected)
            /\ (hev[t] = "close" => ~connected)

\* C14, amended: the open handler sets connected to true and the close handler
\* sets it to false when it is entered, before the user callback is tested for
\* and invoked; while the handler and its callback run, the flag changes only
\* when a disconnect call returns on the caller thread or when another
\* connection's thread enters its open or close handler.
C14_FlagSetBeforeCallback ==
    [][\A t \in Ids :
        /\ (Enters(t, "open") => connected')
        /\ (Enters(t, "close") => ~connected')
        /\ (/\ InHandler(t) /\ hev[t] \in {"open", "close"}
            /\ hpc'[t] \in {"test", "call", "incb"}
            /\ connected' # connected)
                => \/ DisconnectReturns
                   \/ \E u \in Ids \ {t} : Enters(u, "open") \/ Enters(u, "close")]_vars

\* The only connection's onOpen callback is running, the handler having set
\* the flag, and a disconnect call that returned meanwhile has cleared it.
C14_Witness ==
    /\ nconn = 1
    /\ hpc[1] = "incb" /\ hev[1] = "open"
    /\ hinv[1] = <<[cb |-> 1, args |-> <<>>]>>
    /\ dres = "returned"
    /\ ~connected

----------------------------------------------------------------------------
\* C15

\* C15: a forwarding handler invokes a user callback only when one is
\* registered, and an event whose callback is absent is dropped without any
\* failure reaching the connection's event loop, also when connect replaces
\* the stored callbacks while a thread is inside a forwarding handler: no
\* handler is left by the TypeError of calling an absent callback.
C15_AbsentCallbackDropped ==
    /\ \A t \in Ids : hpc[t] = "incb" => hinv[t][Len(hinv[t])].cb # None
    /\ \A t \in Ids : ~(hpc[t] = "raised" /\ hev[t] = "TypeError")

----------------------------------------------------------------------------
\* C16

\* C16: message events and error events leave connected unchanged: entering
\* the message or error handler does not write the flag, and while such a
\* handler runs, with or without a callback and whether or not the callback
\* raises, the flag changes only by what other threads do (a disconnect call
\* returning, another connection's open or close handler); an error event
\* never marks the Session as not connected.
C16_MessageErrorKeepFlag ==
    [][\A t \in Ids :
        /\ (Enters(t, "message") \/ Enters(t, "error")) => connected' = connected
        /\ (/\ InHandler(t) /\ hev[t] \in {"message", "error"}
            /\ connected' # connected)
                => \/ DisconnectReturns
                   \/ \E u \in Ids \ {t} : Enters(u, "open") \/ Enters(u, "close")]_vars

\* The error callback of an open connection is running and the Session is
\* still marked connected.
C16_Witness ==
    \E t \in Ids :
        /\ hpc[t] = "incb" /\ hev[t] = "error"
        /\ hinv[t] = <<[cb |-> user_on_error, args |-> hargs[t]]>>
        /\ cstate[target[t]] = "open"
        /\ connected

----------------------------------------------------------------------------
\* C17

\* C17: after a disconnect call that returned (on connection lastDisc) and a
\* new connect call (which made the next connection the Session's), connected
\* reflects only the new connection: it is false until the new connection's
\* open event and, once that has opened, true until its close event or the
\* next disconnect; an open or close event that the earlier connection's
\* thread delivers late does not change it.
C17_OnlyNewConnection ==
    (lastDisc # None /\ ws = lastDisc + 1)
        => (connected <=> cstate[ws] = "open")

----------------------------------------------------------------------------
\* C18

\* C18: within one connect call the four callbacks are stored before the
\* connection is created and before the thread is started: the step that
\* creates a connection and the step that starts a thread come after the
\* call's store and leave the slots as the store wrote them, so whenever a
\* connection exists the slots hold nothing or callbacks of its own or a later
\* call, and a callback invoked for an event of a connection is never one
\* stored before the call that created the connection.
C18_CallbacksStoredFirst ==
    /\ [][(nconn' # nconn) =>
            /\ cpc = "c_ws" /\ LatestCall = nconn'
            /\ UNCHANGED <<user_on_message, user_on_error, user_on_close, user_on_open>>]_vars
    /\ [][\A t \in Ids : (tstate[t] # "running" /\ tstate'[t] = "running") =>
            /\ cpc = "c_start" /\ LatestCall >= target[t]
            /\ UNCHANGED <<user_on_message, user_on_error, user_on_close, user_on_open>>]_vars
    /\ [](\A c \in Ids : cstate[c] # "none" =>
            \A ev \in {"message", "error", "close", "open"} :
                UserCb(ev) = None \/ UserCb(ev) >= c)
    /\ [](\A t \in Ids : hinv[t] # <<>> => hinv[t][Len(hinv[t])].cb >= target[t])

\* The second connection's thread is running a callback that the second
\* connect call stored, after a first call that had stored callbacks too.
C18_Witness ==
    /\ target[2] = 2 /\ tstate[2] = "running"
    /\ hpc[2] = "incb"
    /\ hinv[2] = <<[cb |-> 2, args |-> hargs[2]]>>
    /\ hinv[1] # <<>> /\ hinv[1][1].cb = 1

====
